---- MODULE Spec2Model ----
(***************************************************************************)
(* abideify: document -> bounded text units -> concurrent remote rewrite   *)
(* -> ordered join -> word units -> sequential remote synthesis -> one     *)
(* audio track.                                                            *)
(*                                                                         *)
(* Strings are sequences of one-character strings.  The two chunkers, the  *)
(* join and the final formatting are operators computed the way the Python *)
(* code computes them; main_async, the rewrite tasks under the semaphore   *)
(* and the synthesis loop are actions.                                     *)
(***************************************************************************)
EXTENDS Integers, Sequences, FiniteSets, TLC

(***************************************************************************)
(* Bounds of the model.                                                    *)
(***************************************************************************)
\* longest text handed to the chunkers in ChunkSpec
MaxTextLen == 5
\* largest chunk size tried in ChunkSpec (sizes range over -1..MaxChunkSize)
MaxChunkSize == 4
\* most sentences in a document of the pipeline specification
MaxSentences == 2
\* largest --concurrent_requests tried (values range over -1..MaxConcurrent)
MaxConcurrent == 2
\* the wall clock (seconds) advances at most to this value
MaxClock == 1

(***************************************************************************)
(* Characters and Python string primitives.                                *)
(***************************************************************************)
NL == "\n"
SP == " "
Whitespace == {SP, NL}
Terminators == {".", "!", "?"}
\* Python's None, as a value comparable with strings
None == <<"<None>">>

\* str.strip(): leading whitespace removed
RECURSIVE LStrip(_)
LStrip(s) ==
    IF s = <<>> THEN s
    ELSE IF Head(s) \in Whitespace THEN LStrip(Tail(s)) ELSE s

\* str.strip(): trailing whitespace removed
RECURSIVE RStrip(_)
RStrip(s) ==
    IF s = <<>> THEN s
    ELSE IF s[Len(s)] \in Whitespace THEN RStrip(SubSeq(s, 1, Len(s) - 1)) ELSE s

\* str.strip()
Strip(s) == RStrip(LStrip(s))

\* sep.join(parts)
RECURSIVE Join(_, _)
Join(parts, sep) ==
    IF parts = <<>> THEN <<>>
    ELSE IF Len(parts) = 1 THEN parts[1]
    ELSE parts[1] \o sep \o Join(Tail(parts), sep)

\* str.split() with no argument: the maximal runs of non-whitespace
RECURSIVE SplitWords(_, _, _)
SplitWords(s, cur, acc) ==
    IF s = <<>> THEN (IF cur = <<>> THEN acc ELSE Append(acc, cur))
    ELSE IF Head(s) \in Whitespace
         THEN SplitWords(Tail(s), <<>>, IF cur = <<>> THEN acc ELSE Append(acc, cur))
         ELSE SplitWords(Tail(s), Append(cur, Head(s)), acc)

PySplit(s) == SplitWords(s, <<>>, <<>>)

\* first position >= p of s that holds no space (Len(s) + 1 when there is none)
RECURSIVE SkipSpaces(_, _)
SkipSpaces(s, p) ==
    IF p > Len(s) THEN p
    ELSE IF s[p] = SP THEN SkipSpaces(s, p + 1) ELSE p

\* re.split(r'(?<=[.!?]) +', text): cut at every run of spaces that follows
\* a sentence terminator; the run is consumed, the terminator is kept
RECURSIVE ReSplitFrom(_, _, _, _)
ReSplitFrom(s, p, cur, acc) ==
    IF p > Len(s) THEN Append(acc, cur)
    ELSE IF s[p] = SP /\ p > 1 /\ s[p - 1] \in Terminators
         THEN ReSplitFrom(s, SkipSpaces(s, p), <<>>, Append(acc, cur))
         ELSE ReSplitFrom(s, p + 1, Append(cur, s[p]), acc)

SplitSentences(s) == ReSplitFrom(s, 1, <<>>, <<>>)

(***************************************************************************)
(* AIProcessor.split_text_into_chunks                                      *)
(***************************************************************************)
\* split_text_into_chunks with the sentence's length left out of the fit test
RECURSIVE SplitLoopNoLength(_, _, _, _)
SplitLoopNoLength(sentences, size, current_chunk, acc) ==
    IF sentences = <<>>
    THEN (IF current_chunk # <<>> THEN Append(acc, Strip(current_chunk)) ELSE acc)
    ELSE LET sentence == Head(sentences) IN
         IF Len(current_chunk) + 1 <= size
         THEN SplitLoopNoLength(Tail(sentences), size,
                                current_chunk \o sentence \o <<SP>>, acc)
         ELSE SplitLoopNoLength(Tail(sentences), size, sentence \o <<SP>>,
                                IF current_chunk # <<>>
                                THEN Append(acc, Strip(current_chunk)) ELSE acc)

split_text_no_length(txt, size) ==
    SplitLoopNoLength(SplitSentences(txt), size, <<>>, <<>>)

\* the for loop over the sentences and the final flush
RECURSIVE SplitLoop(_, _, _, _)
SplitLoop(sentences, size, current_chunk, acc) ==
    IF sentences = <<>>
    THEN (IF current_chunk # <<>> THEN Append(acc, Strip(current_chunk)) ELSE acc)
    ELSE LET sentence == Head(sentences) IN
         IF Len(current_chunk) + Len(sentence) + 1 <= size
         THEN SplitLoop(Tail(sentences), size, current_chunk \o sentence \o <<SP>>, acc)
         ELSE SplitLoop(Tail(sentences), size, sentence \o <<SP>>,
                        IF current_chunk # <<>>
                        THEN Append(acc, Strip(current_chunk)) ELSE acc)

split_text_into_chunks(txt, size) == SplitLoop(SplitSentences(txt), size, <<>>, <<>>)

(***************************************************************************)
(* unreal_cli.chunk_text                                                   *)
(***************************************************************************)
\* chunk_text that starts the next chunk empty: the word that did not fit is lost
RECURSIVE ChunkLoopDropWord(_, _, _, _, _)
ChunkLoopDropWord(words, size, current_chunk, current_length, acc) ==
    IF words = <<>>
    THEN (IF current_chunk # <<>> THEN Append(acc, Join(current_chunk, <<SP>>)) ELSE acc)
    ELSE LET w == Head(words) IN
         IF current_length + Len(w) + 1 > size
         THEN ChunkLoopDropWord(Tail(words), size, <<>>, 0,
                                Append(acc, Join(current_chunk, <<SP>>)))
         ELSE ChunkLoopDropWord(Tail(words), size, Append(current_chunk, w),
                                current_length + Len(w) + 1, acc)

chunk_text_drop_word(txt, size) == ChunkLoopDropWord(PySplit(txt), size, <<>>, 0, <<>>)

\* the for loop over the words and the final flush
RECURSIVE ChunkLoop(_, _, _, _, _)
ChunkLoop(words, size, current_chunk, current_length, acc) ==
    IF words = <<>>
    THEN (IF current_chunk # <<>> THEN Append(acc, Join(current_chunk, <<SP>>)) ELSE acc)
    ELSE LET w == Head(words) IN
         IF current_length + Len(w) + 1 > size
         THEN ChunkLoop(Tail(words), size, <<w>>, Len(w),
                        Append(acc, Join(current_chunk, <<SP>>)))
         ELSE ChunkLoop(Tail(words), size, Append(current_chunk, w),
                        current_length + Len(w) + 1, acc)

chunk_text(txt, size) == ChunkLoop(PySplit(txt), size, <<>>, 0, <<>>)

(***************************************************************************)
(* cli.main_async: join of the rewritten units and final formatting        *)
(***************************************************************************)
\* Python truthiness of a str-or-None value
Falsy(x) == x = <<>> \/ x = None

\* filter(None, simplified_list)
FilterNone(list) == SelectSeq(list, LAMBDA x : ~Falsy(x))

\* number of consecutive newlines of s starting at position p
RECURSIVE NewlineRun(_, _)
NewlineRun(s, p) ==
    IF p > Len(s) THEN 0
    ELSE IF s[p] = NL THEN 1 + NewlineRun(s, p + 1) ELSE 0

\* re.sub(r'\n{3,}', '\n\n', markdown_text)
RECURSIVE FormatFrom(_, _, _)
FormatFrom(s, p, acc) ==
    IF p > Len(s) THEN acc
    ELSE LET r == NewlineRun(s, p) IN
         IF r >= 3 THEN FormatFrom(s, p + r, acc \o <<NL, NL>>)
         ELSE FormatFrom(s, p + 1, Append(acc, s[p]))

format_final_markdown(markdown_text) == FormatFrom(markdown_text, 1, <<>>)

\* "\n\n".join(filter(None, simplified_list))
JoinSimplified(list) == Join(FilterNone(list), <<NL, NL>>)

(***************************************************************************)
(* AIProcessor.process_chunk_with_ai: what the coroutine returns for one   *)
(* answer of the remote rewrite call.  A response is a record              *)
(* [kind |-> "ok", content |-> text-or-None] or [kind |-> "raise"].        *)
(***************************************************************************)
\* _validate_markdown returns its argument on both paths of its try/except
validate_markdown(markdown_text) == markdown_text

\* an except branch that returns a marker instead of ""
ProcessReturnPlaceholder(resp) ==
    IF resp.kind = "raise" THEN <<"E">> ELSE validate_markdown(resp.content)

\* the try/except around the remote call
ProcessReturn(resp) ==
    IF resp.kind = "raise" THEN <<>> ELSE validate_markdown(resp.content)

\* a semaphore that never reports itself locked
LockedNever(value, queue) == FALSE

\* asyncio.Semaphore.locked(): no free slot, or earlier waiters queued
Locked(value, queue) == value = 0 \/ queue # <<>>

\* results collected in the order the tasks completed
GatherResultsByCompletion(results, completion) ==
    [i \in 1..Len(results) |-> results[completion[i]]]

\* asyncio.gather: the children's results in the order the awaitables were
\* passed, whatever the order they completed in
GatherResults(results, completion) == [i \in 1..Len(results) |-> results[i]]

(***************************************************************************)
(* State.                                                                  *)
(***************************************************************************)
VARIABLES
    pc,                  \* position of the entry point (main_async / unreal_cli.main)
    entry,               \* "cli" (cli.main) or "unreal" (unreal_cli.main)
    exit_status,         \* -1 while running, then the process exit status
    exc,                 \* what ended the run with a failure ("none" otherwise)
    text,                \* the Markdown read from intermediate_md / the input file
    max_chunk_size,      \* AIProcessor.max_chunk_size
    concurrent_requests, \* args.concurrent_requests
    client,              \* AIProcessor.client is set
    sem_value,           \* AIProcessor.semaphore._value
    waiters,             \* AIProcessor.semaphore._waiters, oldest first
    chunks,              \* chunks of main_async
    task,                \* state of the coroutine process_chunk_with_ai(chunks[i])
    ret,                 \* value returned by task i
    outcome,             \* answer the remote rewrite gave to the call for unit i
    order,               \* unit indices in the order their tasks completed
    simplified_list,     \* result of asyncio.gather
    simplified_content,  \* joined and formatted text
    md_writes,           \* number of writes of final_md
    tts,                 \* args.tts
    debug_mode,          \* args.debug_mode
    tts_chunk_size,      \* args.tts_chunk_size / chunk_size
    text_chunks,         \* units of the audio stage
    idx,                 \* loop variable i of the synthesis loop
    chunk_wavs,          \* what synthesize_text returned, per unit processed
    synth_outcome,       \* what the voice service did for the unit processed last
    final_audio,         \* the accumulator: unit indices of the segments appended
    fs,                  \* files on disk: name -> unit whose audio the file holds
    clock,               \* datetime.now() in whole seconds
    exports,             \* number of final_audio.export calls
    log                  \* the distinct records emitted through logger / click.echo

vars == <<pc, entry, exit_status, exc, text, max_chunk_size, concurrent_requests,
          client, sem_value, waiters, chunks, task, ret, outcome, order,
          simplified_list, simplified_content, md_writes, tts, debug_mode,
          tts_chunk_size, text_chunks, idx, chunk_wavs, synth_outcome,
          final_audio, fs, clock, exports, log>>

text_vars == <<text, max_chunk_size, concurrent_requests, client, sem_value,
               waiters, chunks, task, ret, outcome, order, simplified_list,
               simplified_content, md_writes>>

audio_vars == <<tts, debug_mode, tts_chunk_size, text_chunks, idx, chunk_wavs,
                synth_outcome, final_audio, fs, clock, exports>>

(***************************************************************************)
(* Inputs.                                                                 *)
(***************************************************************************)
\* k sentences "a." separated by one space
RECURSIVE SentencesDoc(_)
SentencesDoc(k) ==
    IF k = 0 THEN <<>>
    ELSE IF k = 1 THEN <<"a", ".">>
    ELSE <<"a", ".", SP>> \o SentencesDoc(k - 1)

\* documents of the pipeline: up to MaxSentences sentences, with or without
\* a trailing space (so the empty and the blank document are among them)
Docs == { SentencesDoc(k) \o tail : k \in 0..MaxSentences, tail \in {<<>>, <<SP>>} }

\* values of --max_chunk_size: one sentence per unit (0, 3), two per unit (6)
ChunkSizes == {0, 3, 6}

\* values of --tts_chunk_size: 1 puts every word in a unit of its own,
\* 5 lets two short words share a unit
TtsSizes == {1, 5}

\* answers of the remote rewrite call: some text, an empty completion, a
\* completion without content (None), or an exception (network, rate limit,
\* malformed response)
RewriteResponses ==
    { [kind |-> "ok", content |-> c] : c \in {<<"x">>, <<"y", NL>>, <<>>, None} }
    \cup { [kind |-> "raise", content |-> None] }

\* a response that yields no text for its unit
FailedResponse(resp) == resp.kind = "raise" \/ Falsy(resp.content)

\* no answer yet
NoResponse == [kind |-> "pending", content |-> None]

\* what the voice service and the local conversion do for one unit:
\*   "ok"            status 200, body converts to a WAV
\*   "bad_content"   status 200, ffmpeg cannot convert the body: no WAV written
\*   "convert_raise" status 200, writing the body or starting ffmpeg raises
\*   "status"        status other than 200
\*   "raise"         requests.post raises
SynthOutcomes == {"ok", "bad_content", "convert_raise", "status", "raise"}

TEMP_WAV == <<"temp_response.wav">>
TEMP_MP3 == <<"temp_response.mp3">>
DebugWav(timestamp) == <<"response", timestamp>>

\* file system helpers
Exists(files, name) == name \in DOMAIN files
Remove(files, name) == [n \in DOMAIN files \ {name} |-> files[n]]
WriteFile(files, name, data) ==
    [n \in DOMAIN files \cup {name} |-> IF n = name THEN data ELSE files[n]]
NoFiles == [n \in {} |-> 0]

(***************************************************************************)
(* Initial state: the process has parsed its arguments, nothing has run.   *)
(***************************************************************************)
\* everything but the position and the chunkers' arguments
Idle ==
    /\ entry = "none"
    /\ exit_status = -1
    /\ exc = "none"
    /\ concurrent_requests = 0
    /\ client = FALSE
    /\ sem_value = 0
    /\ waiters = <<>>
    /\ chunks = <<>>
    /\ task = <<>>
    /\ ret = <<>>
    /\ outcome = <<>>
    /\ order = <<>>
    /\ simplified_list = <<>>
    /\ simplified_content = <<>>
    /\ md_writes = 0
    /\ tts = FALSE
    /\ debug_mode = FALSE
    /\ text_chunks = <<>>
    /\ idx = 0
    /\ chunk_wavs = <<>>
    /\ synth_outcome = "none"
    /\ final_audio = <<>>
    /\ fs = NoFiles
    /\ clock = 0
    /\ exports = 0
    /\ log = {}

Init ==
    /\ pc = "start"
    /\ text = <<>>
    /\ max_chunk_size = 0
    /\ tts_chunk_size = 0
    /\ Idle

\* the run ends with a failure: sys.exit(1), or an exception that cli.main
\* turns into sys.exit(1) / click turns into a non-zero exit
Fail(cause) ==
    /\ pc' = "failed"
    /\ exit_status' = 1
    /\ exc' = cause

\* a log record; unit = 0 when the message names no unit
LogRec(level, msg, unit) == [level |-> level, msg |-> msg, unit |-> unit]

\* `if not text`: only the empty text is refused
IsBlankOnlyEmpty(t) == t = <<>>

\* `if not text.strip()` of main_async
IsBlank(t) == Strip(t) = <<>>

(***************************************************************************)
(* cli.main_async, text stage.                                             *)
(***************************************************************************)
\* output paths, then the input file's type: PDF is converted (the converter
\* may raise), Markdown is used as is, anything else ends the run
StartCli ==
    /\ pc = "start"
    /\ entry' = "cli"
    /\ \E kind \in {"pdf", "md", "other"}, converted \in BOOLEAN :
         IF kind = "other"
         THEN /\ Fail("UnsupportedFileType")
              /\ log' = log \cup {LogRec("error", "Unsupported file type", 0)}
         ELSE IF kind = "pdf" /\ ~converted
         THEN /\ Fail("ExtractionError")
              /\ log' = log \cup {LogRec("error", "PDF conversion failed", 0)}
         ELSE /\ pc' = "init_ai"
              /\ UNCHANGED <<exit_status, exc, log>>
    /\ UNCHANGED <<text_vars, audio_vars>>

\* AIProcessor(...) and initialize_client(): asyncio.Semaphore raises
\* ValueError for a negative value, AsyncOpenAI() raises without credential
InitAI ==
    /\ pc = "init_ai"
    /\ \E size \in ChunkSizes, k \in -1..MaxConcurrent, credential \in BOOLEAN :
         /\ max_chunk_size' = size
         /\ concurrent_requests' = k
         /\ IF k < 0
            THEN /\ Fail("ValueError")
                 /\ UNCHANGED <<sem_value, client, log>>
            ELSE /\ sem_value' = k
                 /\ IF ~credential
                    THEN /\ Fail("OpenAIError")
                         /\ log' = log \cup {LogRec("error", "Failed to initialize OpenAI client", 0)}
                         /\ UNCHANGED client
                    ELSE /\ client' = TRUE
                         /\ pc' = "read"
                         /\ log' = log \cup {LogRec("info", "OpenAI client initialized", 0)}
                         /\ UNCHANGED <<exit_status, exc>>
    /\ UNCHANGED <<entry, text, waiters, chunks, task, ret, outcome, order,
                   simplified_list, simplified_content, md_writes, audio_vars>>

\* read the Markdown, refuse blank text, split, create one coroutine per chunk
ReadAndSplit ==
    /\ pc = "read"
    /\ \E t \in Docs :
         /\ text' = t
         /\ IF IsBlank(t)
            THEN /\ Fail("NoText")
                 /\ log' = log \cup {LogRec("error", "No text was extracted", 0)}
                 /\ UNCHANGED <<chunks, task, ret, outcome>>
            ELSE LET cs == split_text_into_chunks(t, max_chunk_size) IN
                 /\ chunks' = cs
                 /\ task' = [i \in 1..Len(cs) |-> "new"]
                 /\ ret' = [i \in 1..Len(cs) |-> None]
                 /\ outcome' = [i \in 1..Len(cs) |-> NoResponse]
                 /\ pc' = "gather"
                 /\ log' = log \cup {LogRec("info", "Processing chunks", 0)}
                 /\ UNCHANGED <<exit_status, exc>>
    /\ UNCHANGED <<entry, max_chunk_size, concurrent_requests, client, sem_value,
                   waiters, order, simplified_list, simplified_content, md_writes,
                   audio_vars>>

\* number of remote rewrite calls in flight
InFlight == Cardinality({i \in DOMAIN task : task[i] = "inflight"})

\* first step of process_chunk_with_ai(chunks[i]): the client check, then
\* `async with self.semaphore` takes a slot or queues the task.  The event
\* loop starts the tasks in the order gather was given them.
TaskStart(i) ==
    /\ pc = "gather"
    /\ task[i] = "new"
    /\ \A j \in 1..(i - 1) : task[j] # "new"
    /\ IF ~client
       THEN /\ task' = [task EXCEPT ![i] = "raised"]
            /\ Fail("RuntimeError")
            /\ UNCHANGED <<sem_value, waiters>>
       ELSE /\ IF ~Locked(sem_value, waiters)
               THEN /\ sem_value' = sem_value - 1
                    /\ task' = [task EXCEPT ![i] = "inflight"]
                    /\ UNCHANGED waiters
               ELSE /\ waiters' = Append(waiters, i)
                    /\ task' = [task EXCEPT ![i] = "waiting"]
                    /\ UNCHANGED sem_value
            /\ UNCHANGED <<pc, exit_status, exc>>
    /\ UNCHANGED <<entry, text, max_chunk_size, concurrent_requests, client, chunks,
                   ret, outcome, order, simplified_list, simplified_content,
                   md_writes, audio_vars, log>>

\* a slot that is given back only when the remote call succeeded
SemReleaseOnSuccessOnly(value, queue, resp) ==
    IF resp.kind = "raise" \/ queue # <<>> THEN value ELSE value + 1

\* the semaphore's counter after `async with self.semaphore` is left, on the
\* normal and on the exceptional path alike: release() adds the slot back
\* and, when a task is queued, takes it again on that task's behalf
SemRelease(value, queue, resp) ==
    IF queue # <<>> THEN value ELSE value + 1

\* the remote call of task i answers: the coroutine leaves `async with`
\* (release: the slot goes to the oldest waiter, or back to the semaphore),
\* and returns the validated text, or "" from the except branch
RemoteReturn(i) ==
    /\ pc = "gather"
    /\ task[i] = "inflight"
    /\ \E resp \in RewriteResponses :
         /\ outcome' = [outcome EXCEPT ![i] = resp]
         /\ ret' = [ret EXCEPT ![i] = ProcessReturn(resp)]
         /\ log' = IF resp.kind = "raise"
                   THEN log \cup {LogRec("error", "AI processing failed for chunk", 0)}
                   ELSE IF resp.content = None
                   THEN log \cup {LogRec("warning", "Markdown validation failed", 0)}
                   ELSE log
         /\ sem_value' = SemRelease(sem_value, waiters, resp)
    /\ order' = Append(order, i)
    /\ IF waiters # <<>>
       THEN /\ task' = [task EXCEPT ![i] = "done", ![Head(waiters)] = "woken"]
            /\ waiters' = Tail(waiters)
       ELSE /\ task' = [task EXCEPT ![i] = "done"]
            /\ UNCHANGED waiters
    /\ UNCHANGED <<pc, entry, exit_status, exc, text, max_chunk_size,
                   concurrent_requests, client, chunks, simplified_list,
                   simplified_content, md_writes, audio_vars>>

\* a task that was handed a slot resumes and issues its remote call
TaskResume(i) ==
    /\ pc = "gather"
    /\ task[i] = "woken"
    /\ task' = [task EXCEPT ![i] = "inflight"]
    /\ UNCHANGED <<pc, entry, exit_status, exc, text, max_chunk_size,
                   concurrent_requests, client, sem_value, waiters, chunks, ret,
                   outcome, order, simplified_list, simplified_content, md_writes,
                   audio_vars, log>>

\* a gather that resolves as soon as one task has returned
AnyDone(t) == \E i \in DOMAIN t : t[i] = "done"

\* `await asyncio.gather(*tasks)` resolves when every task has returned
AllDone(t) == \A i \in DOMAIN t : t[i] = "done"

\* every task has returned: gather resolves, the results are joined,
\* formatted and written to final_md
GatherReturn ==
    /\ pc = "gather"
    /\ AllDone(task)
    /\ LET list == GatherResults(ret, order) IN
         /\ simplified_list' = list
         /\ simplified_content' = format_final_markdown(JoinSimplified(list))
    /\ md_writes' = md_writes + 1
    /\ log' = log \cup {LogRec("info", "Simplified Markdown saved", 0)}
    /\ pc' = "tts"
    /\ UNCHANGED <<entry, exit_status, exc, text, max_chunk_size, concurrent_requests,
                   client, sem_value, waiters, chunks, task, ret, outcome, order,
                   audio_vars>>

(***************************************************************************)
(* UnrealSpeechTTSService.synthesize_text for one unit: the path it        *)
(* returns (None on failure), the files it leaves and what it logs.        *)
(***************************************************************************)
synthesize_text(files, unit, o, debug, now) ==
    IF o = "raise"
    THEN [path |-> None, files |-> files,
          logs |-> {LogRec("error", "UnrealSpeechTTSService error", 0)}]
    ELSE IF o = "status"
    THEN [path |-> None, files |-> files,
          logs |-> {LogRec("error", "UnrealSpeech request failed", 0)}]
    ELSE LET withMp3 == WriteFile(files, TEMP_MP3, unit) IN
         IF o = "convert_raise"
         THEN [path |-> None, files |-> withMp3,
               logs |-> {LogRec("error", "UnrealSpeechTTSService error", 0)}]
         ELSE LET converted == IF o = "ok" THEN WriteFile(withMp3, TEMP_WAV, unit)
                                           ELSE withMp3
                  noMp3 == IF Exists(converted, TEMP_MP3) THEN Remove(converted, TEMP_MP3)
                                                          ELSE converted
              IN IF ~debug
                 THEN [path |-> TEMP_WAV, files |-> noMp3, logs |-> {}]
                 ELSE IF ~Exists(noMp3, TEMP_WAV)
                 THEN \* os.rename raises FileNotFoundError, caught by the except
                      [path |-> None, files |-> noMp3,
                       logs |-> {LogRec("error", "UnrealSpeechTTSService error", 0)}]
                 ELSE [path |-> DebugWav(now),
                       files |-> WriteFile(Remove(noMp3, TEMP_WAV), DebugWav(now),
                                           noMp3[TEMP_WAV]),
                       logs |-> {LogRec("info", "Saved TTS audio", 0)}]

\* segment + final_audio: the new segment goes in front
PrependSegment(track, segment) == <<segment>> \o track

\* final_audio += segment
AppendSegment(track, segment) == Append(track, segment)

(***************************************************************************)
(* Audio stage: cli.main_async lines 85-117 and unreal_cli.main.           *)
(***************************************************************************)
\* the text stage's objects after their last use: the AIProcessor, the
\* chunks, the tasks and the gathered list are not read by the audio stage
TextStageDropped ==
    /\ text' = <<>>
    /\ max_chunk_size' = 0
    /\ concurrent_requests' = 0
    /\ client' = FALSE
    /\ sem_value' = 0
    /\ waiters' = <<>>
    /\ chunks' = <<>>
    /\ task' = <<>>
    /\ ret' = <<>>
    /\ outcome' = <<>>
    /\ order' = <<>>
    /\ simplified_list' = <<>>

\* `if args.tts`, the API key check, chunk_text, the empty accumulator
\* an audio stage that is fed the document instead of its rewrite
TtsSourceOriginal(content, original) == original

\* the text handed to chunk_text for synthesis: the variable that was just
\* written to final_md, not the document that was read
TtsSource(content, original) == content

TtsCheck ==
    /\ pc = "tts"
    /\ \E enabled \in BOOLEAN :
         /\ tts' = enabled
         /\ IF ~enabled
            THEN /\ pc' = "done"
                 /\ exit_status' = 0
                 /\ UNCHANGED <<exc, debug_mode, tts_chunk_size, text_chunks, idx,
                                final_audio, log, text, max_chunk_size,
                                concurrent_requests, client, sem_value, waiters,
                                chunks, task, ret, outcome, order, simplified_list>>
            ELSE \E key \in BOOLEAN, dbg \in BOOLEAN, size \in TtsSizes :
                 /\ debug_mode' = dbg
                 /\ tts_chunk_size' = size
                 /\ IF ~key
                    THEN /\ Fail("MissingApiKey")
                         /\ log' = log \cup {LogRec("error", "No UnrealSpeech API key found", 0)}
                         /\ UNCHANGED <<text_chunks, idx, final_audio, text,
                                        max_chunk_size, concurrent_requests, client,
                                        sem_value, waiters, chunks, task, ret,
                                        outcome, order, simplified_list>>
                    ELSE /\ text_chunks' = chunk_text(TtsSource(simplified_content, text), size)
                         /\ final_audio' = <<>>
                         /\ idx' = 1
                         /\ pc' = "synth"
                         /\ log' = log \cup {LogRec("info", "Chunked text for TTS", 0)}
                         /\ TextStageDropped
                         /\ UNCHANGED <<exit_status, exc>>
    /\ UNCHANGED <<entry, simplified_content, md_writes, chunk_wavs, synth_outcome,
                   fs, clock, exports>>

\* unreal_cli.main up to the loop: API key check, read the file, chunk_text
StartUnreal ==
    /\ pc = "start"
    /\ entry' = "unreal"
    /\ \E key \in BOOLEAN, dbg \in BOOLEAN, size \in TtsSizes, t \in Docs :
         /\ debug_mode' = dbg
         /\ tts_chunk_size' = size
         /\ IF ~key
            THEN /\ Fail("MissingApiKey")
                 /\ UNCHANGED <<text, text_chunks, idx, final_audio, log>>
            ELSE /\ text' = t
                 /\ text_chunks' = chunk_text(t, size)
                 /\ final_audio' = <<>>
                 /\ idx' = 1
                 /\ pc' = "synth"
                 /\ log' = log \cup {LogRec("info", "Chunked text", 0)}
                 /\ UNCHANGED <<exit_status, exc>>
    /\ UNCHANGED <<max_chunk_size, concurrent_requests, client, sem_value, waiters,
                   chunks, task, ret, outcome, order, simplified_list,
                   simplified_content, md_writes, tts, chunk_wavs, synth_outcome,
                   fs, clock, exports>>

\* a loop that stops one unit early
LoopDoneEarly(i, units) == i >= Len(units)

\* `for i, chunk in enumerate(text_chunks, start=1)` is exhausted
LoopDone(i, units) == i > Len(units)

\* loop head: the request for unit idx is sent (synthesize_text blocks)
SynthCall ==
    /\ pc = "synth"
    /\ ~LoopDone(idx, text_chunks)
    /\ pc' = "synth_wait"
    /\ log' = log \cup {LogRec("info", "Synthesizing chunk", idx)}
    /\ UNCHANGED <<entry, exit_status, exc, text_vars, audio_vars>>

\* synthesize_text returns and the rest of the loop body runs: skip on None,
\* else load the WAV (raises when the file is missing), append it, and
\* remove it unless debug_mode
SynthReturn ==
    /\ pc = "synth_wait"
    /\ \E o \in SynthOutcomes :
         LET r == synthesize_text(fs, idx, o, debug_mode, clock) IN
         /\ synth_outcome' = o
         /\ chunk_wavs' = Append(chunk_wavs, r.path)
         /\ IF r.path = None
            THEN /\ log' = log \cup r.logs \cup {LogRec("error", "Error synthesizing chunk", idx)}
                 /\ fs' = r.files
                 /\ idx' = idx + 1
                 /\ pc' = "synth"
                 /\ UNCHANGED <<final_audio, exit_status, exc>>
            ELSE IF ~Exists(r.files, r.path)
            THEN /\ Fail("DecodeError")
                 /\ log' = log \cup r.logs
                 /\ fs' = r.files
                 /\ UNCHANGED <<final_audio, idx>>
            ELSE /\ final_audio' = AppendSegment(final_audio, r.files[r.path])
                 /\ fs' = IF ~debug_mode THEN Remove(r.files, r.path) ELSE r.files
                 /\ log' = log \cup r.logs
                 /\ idx' = idx + 1
                 /\ pc' = "synth"
                 /\ UNCHANGED <<exit_status, exc>>
    /\ UNCHANGED <<entry, text_vars, tts, debug_mode, tts_chunk_size, text_chunks,
                   clock, exports>>

\* time passes while the audio stage runs
Tick ==
    /\ pc \in {"synth", "synth_wait"}
    /\ clock < MaxClock
    /\ clock' = clock + 1
    /\ UNCHANGED <<pc, entry, exit_status, exc, text_vars, tts, debug_mode,
                   tts_chunk_size, text_chunks, idx, chunk_wavs, synth_outcome,
                   final_audio, fs, exports, log>>

\* after the loop: final_audio.export(...), the run ends with success
Export ==
    /\ pc = "synth"
    /\ LoopDone(idx, text_chunks)
    /\ exports' = exports + 1
    /\ log' = log \cup {LogRec("info", "TTS completed", 0)}
    /\ pc' = "done"
    /\ exit_status' = 0
    /\ UNCHANGED <<entry, exc, text_vars, tts, debug_mode, tts_chunk_size,
                   text_chunks, idx, chunk_wavs, synth_outcome, final_audio, fs,
                   clock>>

Next ==
    \/ StartCli
    \/ InitAI
    \/ ReadAndSplit
    \/ \E i \in DOMAIN task : TaskStart(i)
    \/ \E i \in DOMAIN task : RemoteReturn(i)
    \/ \E i \in DOMAIN task : TaskResume(i)
    \/ GatherReturn
    \/ TtsCheck
    \/ StartUnreal
    \/ SynthCall
    \/ SynthReturn
    \/ Tick
    \/ Export

Spec == Init /\ [][Next]_vars

(***************************************************************************)
(* The chunkers as pure functions: every text up to MaxTextLen over        *)
(* a letter, a terminator, a space and a newline, with every size in       *)
(* -1..MaxChunkSize.                                                       *)
(***************************************************************************)
Alphabet == {"a", ".", SP, NL}

ChunkTexts == UNION { [1..k -> Alphabet] : k \in 0..MaxTextLen }

ChunkInit ==
    /\ pc = "fn_input"
    /\ text \in ChunkTexts
    /\ max_chunk_size \in -1..MaxChunkSize
    /\ tts_chunk_size = max_chunk_size
    /\ Idle

\* chunks = ai.split_text_into_chunks(text)
ApplySplit ==
    /\ pc = "fn_input"
    /\ chunks' = split_text_into_chunks(text, max_chunk_size)
    /\ pc' = "fn_split"
    /\ UNCHANGED <<entry, exit_status, exc, text, max_chunk_size, concurrent_requests,
                   client, sem_value, waiters, task, ret, outcome, order,
                   simplified_list, simplified_content, md_writes, audio_vars, log>>

\* text_chunks = chunk_text(text, chunk_size)
ApplyChunkText ==
    /\ pc = "fn_input"
    /\ text_chunks' = chunk_text(text, tts_chunk_size)
    /\ pc' = "fn_chunk"
    /\ UNCHANGED <<entry, exit_status, exc, text_vars, tts, debug_mode, tts_chunk_size,
                   idx, chunk_wavs, synth_outcome, final_audio, fs, clock, exports,
                   log>>

ChunkNext == ApplySplit \/ ApplyChunkText

ChunkSpec == ChunkInit /\ [][ChunkNext]_vars

(***************************************************************************)
(* Helpers of the properties.                                              *)
(***************************************************************************)
\* concatenation of a sequence of sequences
RECURSIVE Flatten(_)
Flatten(seqs) == IF seqs = <<>> THEN <<>> ELSE Head(seqs) \o Flatten(Tail(seqs))

\* the indices 1..n, ascending
Indices(n) == [i \in 1..n |-> i]

\* the sentences read back from a batch of text units
SentencesOfUnits(units) == Flatten([i \in 1..Len(units) |-> SplitSentences(units[i])])

\* the words read back from a batch of audio units
WordsOfUnits(units) == Flatten([i \in 1..Len(units) |-> PySplit(units[i])])

\* segments up to whitespace: each one stripped, the empty ones left out
Normalized(segments) ==
    SelectSeq([i \in 1..Len(segments) |-> Strip(segments[i])], LAMBDA g : g # <<>>)

\* the texts the remote returned for the units that did not fail, by index
NonFailedContents(out) ==
    LET live == SelectSeq(Indices(Len(out)), LAMBDA i : ~FailedResponse(out[i]))
    IN [k \in 1..Len(live) |-> out[live[k]].content]

\* the units for which synthesize_text returned a path, by index
SynthesizedUnits(wavs) == SelectSeq(Indices(Len(wavs)), LAMBDA i : wavs[i] # None)

\* the completion order is not the index order
Scrambled(completion) ==
    \E a, b \in 1..Len(completion) : a < b /\ completion[a] > completion[b]

(***************************************************************************)
(* C1  Index-order restoration.  When gather hands the result list to the  *)
(* join step, position i holds what process_chunk_with_ai returned for the *)
(* answer given to unit i, whatever order the tasks completed in.          *)
(***************************************************************************)
C1_IndexOrderRestored ==
    pc = "tts" =>
        /\ Len(simplified_list) = Len(chunks)
        /\ \A i \in 1..Len(chunks) : simplified_list[i] = ProcessReturn(outcome[i])

\* a later unit completed before an earlier one, with different results
C1_Witness ==
    /\ pc = "tts"
    /\ Scrambled(order)
    /\ \E i, j \in 1..Len(simplified_list) : simplified_list[i] # simplified_list[j]

(***************************************************************************)
(* C2  Concurrency ceiling.  While the text stage runs, the number of      *)
(* remote rewrite calls in flight never exceeds concurrent_requests.       *)
(***************************************************************************)
C2_ConcurrencyCeiling ==
    pc \in {"gather", "tts"} => InFlight <= concurrent_requests

\* every slot is taken and a further unit is waiting for one
C2_Witness ==
    /\ pc = "gather"
    /\ concurrent_requests >= 1
    /\ InFlight = concurrent_requests
    /\ \E i \in DOMAIN task : task[i] = "waiting"

(***************************************************************************)
(* C3  Partial failure tolerance.  A failed rewrite leaves the other units *)
(* alone: when the text stage ends every unit has had its answer, the      *)
(* written text is the formatted blank-line join of the texts of exactly   *)
(* the non-failed units in index order, and the run has not failed; a run  *)
(* whose units were dispatched never fails while one of them is pending,   *)
(* and ends with status 0 when no synthesis is asked for.                  *)
(***************************************************************************)
C3_PartialFailureTolerated ==
    /\ pc = "tts" =>
         /\ \A i \in 1..Len(chunks) : outcome[i] # NoResponse
         /\ simplified_content =
                format_final_markdown(Join(NonFailedContents(outcome), <<NL, NL>>))
         /\ md_writes = 1
         /\ exit_status # 1
    /\ (pc = "failed" /\ task # <<>>) => \A i \in DOMAIN task : task[i] = "done"
    /\ (pc = "done" /\ entry = "cli" /\ ~tts) => exit_status = 0

\* a unit between two successful ones failed by exception
C3_Witness ==
    /\ pc = "tts"
    /\ Len(chunks) >= 3
    /\ \E i, j, k \in 1..Len(chunks) :
         /\ i < j /\ j < k
         /\ ~FailedResponse(outcome[i])
         /\ outcome[j].kind = "raise"
         /\ ~FailedResponse(outcome[k])

(***************************************************************************)
(* C4  Size bound.  For a size N >= 1 every unit of either chunker has     *)
(* length <= N, or is a single segment longer than N (a sentence, less the *)
(* surrounding whitespace strip() removes; a word) emitted whole.          *)
(***************************************************************************)
C4_SizeBound ==
    /\ (pc = "fn_split" /\ max_chunk_size >= 1) =>
         \A u \in 1..Len(chunks) :
            \/ Len(chunks[u]) <= max_chunk_size
            \/ \E g \in 1..Len(SplitSentences(text)) :
                 /\ Len(SplitSentences(text)[g]) > max_chunk_size
                 /\ chunks[u] = Strip(SplitSentences(text)[g])
    /\ (pc = "fn_chunk" /\ tts_chunk_size >= 1) =>
         \A u \in 1..Len(text_chunks) :
            \/ Len(text_chunks[u]) <= tts_chunk_size
            \/ \E g \in 1..Len(PySplit(text)) :
                 /\ Len(PySplit(text)[g]) > tts_chunk_size
                 /\ text_chunks[u] = PySplit(text)[g]

\* a sentence longer than the size was emitted next to another unit
C4_Witness ==
    /\ pc = "fn_split"
    /\ max_chunk_size >= 1
    /\ Len(chunks) >= 2
    /\ \E u \in 1..Len(chunks) : Len(chunks[u]) > max_chunk_size

(***************************************************************************)
(* C5  Chunk boundary preservation, as stated: the segments read back from *)
(* the units in index order are the segments of the input.                 *)
(***************************************************************************)
C5_SegmentsPreservedExactly ==
    /\ pc = "fn_split" => SentencesOfUnits(chunks) = SplitSentences(text)
    /\ pc = "fn_chunk" => WordsOfUnits(text_chunks) = PySplit(text)

(***************************************************************************)
(* C5  amended: the sentences read back from the units equal the input's   *)
(* sentences once each is stripped of surrounding whitespace and the empty *)
(* ones are left out; the words read back equal the input's words.         *)
(***************************************************************************)
C5_SegmentsPreserved ==
    /\ pc = "fn_split" =>
         Normalized(SentencesOfUnits(chunks)) = Normalized(SplitSentences(text))
    /\ pc = "fn_chunk" => WordsOfUnits(text_chunks) = PySplit(text)

\* three words spread over at least two units
C5_Witness ==
    /\ pc = "fn_chunk"
    /\ tts_chunk_size >= 1
    /\ Len(PySplit(text)) >= 3
    /\ Len(text_chunks) >= 2
    /\ \E u \in 1..Len(text_chunks) : Len(PySplit(text_chunks[u])) >= 2

(***************************************************************************)
(* C6  Empty input: both chunkers return the empty batch for the empty     *)
(* string.                                                                 *)
(***************************************************************************)
C6_EmptyInputEmptyBatch ==
    /\ (pc = "fn_split" /\ text = <<>>) => chunks = <<>>
    /\ (pc = "fn_chunk" /\ text = <<>>) => text_chunks = <<>>

C8_InvalidSizeRejected ==
    (entry = "cli" /\ pc = "gather" /\ max_chunk_size <= 0) =>
        \A i \in DOMAIN task : task[i] = "new"

(***************************************************************************)
(* C9  Audio join.  The accumulator starts empty; throughout the loop and  *)
(* at the export the track is the audio of exactly the units synthesize_   *)
(* text returned a path for, in index order; a unit whose request raised   *)
(* or was answered with a non-200 status is skipped; at the export every   *)
(* unit has been processed; the decode failure that ends a run is never    *)
(* met without a unit that returned a path.                                *)
(***************************************************************************)
C9_AudioJoin ==
    /\ (pc = "synth" /\ idx = 1) => final_audio = <<>>
    /\ pc \in {"synth", "synth_wait", "done"} =>
         final_audio = SynthesizedUnits(chunk_wavs)
    /\ pc \in {"synth", "synth_wait"} => Len(chunk_wavs) = idx - 1
    /\ (pc = "synth" /\ synth_outcome \in {"raise", "status"}) =>
         chunk_wavs[idx - 1] = None
    /\ exports = 1 => (pc = "done" /\ Len(chunk_wavs) = Len(text_chunks))
    /\ (pc = "failed" /\ exc = "DecodeError") =>
         chunk_wavs # <<>> /\ chunk_wavs[Len(chunk_wavs)] # None

\* exported with a skipped unit between two synthesized ones
C9_Witness ==
    /\ exports = 1
    /\ Len(chunk_wavs) >= 3
    /\ Len(final_audio) >= 2
    /\ \E i, j, k \in 1..Len(chunk_wavs) :
         /\ i < j /\ j < k
         /\ chunk_wavs[i] # None
         /\ chunk_wavs[j] = None
         /\ chunk_wavs[k] # None

(***************************************************************************)
(* C10  Per-unit failures never become run-level failures: a run fails     *)
(* only for a configuration or an upstream-collaborator failure.           *)
(***************************************************************************)
RunLevelFailures ==
    {"UnsupportedFileType", "ExtractionError", "ValueError", "OpenAIError",
     "NoText", "MissingApiKey"}

C10_UnitFailuresAbsorbed ==
    pc = "failed" => exc \in RunLevelFailures

\* the retained debug artifacts on disk
DebugFiles(files) == {n \in DOMAIN files : n \notin {TEMP_WAV, TEMP_MP3}}

\* the audio stage was entered in this run
AudioStageRan == entry = "unreal" \/ (entry = "cli" /\ tts)

(***************************************************************************)
(* C11  Transient artifact cleanup: without debug mode, no per-unit file   *)
(* (downloaded MP3, converted WAV) is left on disk when the run completes. *)
(***************************************************************************)
C11_NoArtifactLeft ==
    (pc = "done" /\ AudioStageRan /\ ~debug_mode) => DOMAIN fs = {}

(***************************************************************************)
(* C12  Debug artifact retention: with debug mode, a completed run leaves  *)
(* one retained file per successfully synthesized unit.                    *)
(***************************************************************************)
C12_OneArtifactPerUnit ==
    (pc = "done" /\ AudioStageRan /\ debug_mode) =>
        Cardinality(DebugFiles(fs)) = Len(final_audio)

(***************************************************************************)
(* C13  Single final export: the track is exported at most once, never     *)
(* while the loop runs, and a completed audio stage has exported exactly   *)
(* once with every unit of the batch processed.                            *)
(***************************************************************************)
C13_SingleFinalExport ==
    /\ exports <= 1
    /\ pc \in {"synth", "synth_wait"} => exports = 0
    /\ exports = 1 => (pc = "done" /\ Len(chunk_wavs) = Len(text_chunks))
    /\ (pc = "done" /\ AudioStageRan) => exports = 1

\* a batch of several units was exported
C13_Witness ==
    /\ exports = 1
    /\ Len(text_chunks) >= 2
    /\ Len(final_audio) >= 1

(***************************************************************************)
(* C14  Missing credential is fatal before dispatch: a run that ends for   *)
(* a missing credential has status 1 and has dispatched no rewrite and no  *)
(* synthesis.                                                              *)
(***************************************************************************)
C14_NoDispatchBeforeCredentialFailure ==
    (pc = "failed" /\ exc \in {"MissingApiKey", "OpenAIError"}) =>
        /\ exit_status = 1
        /\ order = <<>>
        /\ \A i \in DOMAIN task : task[i] = "new"
        /\ chunk_wavs = <<>>

\* the tasks that hold a concurrency slot: inside `async with`, the slot
\* taken by themselves or taken for them by the releasing task
Holding == Cardinality({i \in DOMAIN task : task[i] \in {"woken", "inflight"}})

\* how many results were recorded for unit i
Recorded(i) == Cardinality({k \in DOMAIN order : order[k] = i})

(***************************************************************************)
(* C15  One result per unit at hand-over: when the result batch reaches    *)
(* the join step it is as long as the unit batch, every unit has exactly   *)
(* one recorded result, and no task is unstarted, queued or in flight.     *)
(***************************************************************************)
C15_OneResultPerUnit ==
    pc = "tts" =>
        /\ Len(simplified_list) = Len(chunks)
        /\ \A i \in DOMAIN chunks :
             /\ task[i] = "done"
             /\ Recorded(i) = 1
             /\ simplified_list[i] = ret[i]
        /\ waiters = <<>>

\* a batch of several units, one of them failed, was handed over
C15_Witness ==
    /\ pc = "tts"
    /\ Len(chunks) >= 2
    /\ \E i \in DOMAIN outcome : outcome[i].kind = "raise"
    /\ \E i \in DOMAIN outcome : outcome[i].kind = "ok"

(***************************************************************************)
(* C16  Slot release is failure-safe: a task whose result is recorded      *)
(* holds no slot; while the dispatch runs, the free slots plus the slots   *)
(* held add up to concurrent_requests; all slots are free when the         *)
(* dispatch has returned.                                                  *)
(***************************************************************************)
C16_SlotsReleased ==
    /\ \A i \in DOMAIN task : Recorded(i) >= 1 => task[i] = "done"
    /\ pc = "gather" => sem_value + Holding = concurrent_requests
    /\ pc = "tts" => sem_value = concurrent_requests

\* the dispatch returned after a remote call raised while no task was queued
C16_Witness ==
    /\ pc = "tts"
    /\ concurrent_requests >= 1
    /\ order # <<>>
    /\ outcome[order[Len(order)]].kind = "raise"

\* the control points at which a stage's units are being dispatched
Dispatching == {"gather", "synth", "synth_wait"}

\* the control points in the order the run passes them: the text stage's
\* Created, Splitting, Dispatching, its hand-over to the audio stage, the
\* audio stage's loop, and the two terminal states
StageRank(p) ==
    CASE p = "start" -> 0
      [] p = "init_ai" -> 1
      [] p = "read" -> 2
      [] p = "gather" -> 3
      [] p = "tts" -> 4
      [] p \in {"synth", "synth_wait"} -> 5
      [] OTHER -> 6

(***************************************************************************)
(* C17  Stage state machine: every step moves forward in the stage order,  *)
(* no step leaves a terminal state, and no step taken while units are      *)
(* being dispatched ends the run in failure (a per-unit failure keeps the  *)
(* stage going).                                                           *)
(***************************************************************************)
C17_StageMachine ==
    [][ /\ StageRank(pc') >= StageRank(pc)
        /\ pc \in {"done", "failed"} => pc' = pc
        /\ pc \in Dispatching => pc' # "failed" ]_vars

(***************************************************************************)
(* C18  Failure observability: for every unit whose transform failed and   *)
(* resolved to absent, in either stage, the log holds an error record      *)
(* that names the unit's index.                                            *)
(***************************************************************************)
C18_FailedUnitLogged ==
    /\ \A i \in DOMAIN outcome :
         outcome[i].kind = "raise" =>
             \E r \in log : r.level = "error" /\ r.unit = i
    /\ \A i \in DOMAIN chunk_wavs :
         chunk_wavs[i] = None =>
             \E r \in log : r.level = "error" /\ r.unit = i

(***************************************************************************)
(* C19  No empty units: for every text and every size >= 1, neither        *)
(* chunker returns a unit that is the empty string.                        *)
(***************************************************************************)
C19_NoEmptyUnit ==
    /\ (pc = "fn_split" /\ max_chunk_size >= 1) =>
           \A u \in DOMAIN chunks : chunks[u] # <<>>
    /\ (pc = "fn_chunk" /\ tts_chunk_size >= 1) =>
           \A u \in DOMAIN text_chunks : text_chunks[u] # <<>>

\* the largest batch the documents of Docs split into
MaxUnits == MaxSentences + 1

\* the event loop runs every task that is ready (a created task starts, a
\* task whose wait was resolved resumes, gather's waiter resumes), and every
\* remote call that was issued eventually returns or raises
LiveSpec ==
    /\ Spec
    /\ \A i \in 1..MaxUnits :
         /\ WF_vars(i \in DOMAIN task /\ TaskStart(i))
         /\ WF_vars(i \in DOMAIN task /\ TaskResume(i))
         /\ WF_vars(i \in DOMAIN task /\ RemoteReturn(i))
    /\ WF_vars(GatherReturn)

(***************************************************************************)
(* C20  Dispatch terminates: for every batch and every accepted            *)
(* concurrent_requests (any integer >= 0), a dispatch that was started     *)
(* eventually hands the complete result batch to the join step.            *)
(***************************************************************************)
C20_DispatchTerminates == (pc = "gather") ~> (pc = "tts")

\* the units whose synthesis call was started
SynthStarted == {r.unit : r \in {q \in log : q.msg = "Synthesizing chunk"}}

(***************************************************************************)
(* C21  Stage ordering: in a run with synthesis enabled the simplified     *)
(* text is written once, when every rewrite has resolved and before any    *)
(* synthesis call; the audio stage's units are the chunks of exactly that  *)
(* written text; while a synthesis call is in flight no rewrite call is,   *)
(* and never more than one synthesis call is in flight.                    *)
(***************************************************************************)
C21_StageOrdering ==
    /\ md_writes <= 1
    /\ pc \in {"start", "init_ai", "read", "gather"} =>
         md_writes = 0 /\ SynthStarted = {}
    /\ pc = "tts" =>
         /\ md_writes = 1
         /\ \A i \in DOMAIN task : task[i] = "done"
         /\ SynthStarted = {}
    /\ (entry = "cli" /\ pc \in {"synth", "synth_wait"}) =>
         /\ md_writes = 1
         /\ text_chunks = chunk_text(simplified_content, tts_chunk_size)
    /\ pc \in {"synth", "synth_wait"} => InFlight = 0
    /\ Cardinality(SynthStarted) - Len(chunk_wavs) =
         IF pc = "synth_wait" THEN 1 ELSE 0

\* the second synthesis call of a run that rewrote its document is in flight
C21_Witness ==
    /\ entry = "cli"
    /\ pc = "synth_wait"
    /\ idx >= 2
    /\ simplified_content # <<>>

====
